---- MODULE Spec2Model ----
(***************************************************************************)
(* A model of evdev-joystick-rs:                                           *)
(*   - evdev-absinfo:  AbsInfo::get_absinfo / set_absinfo over input       *)
(*     device files, check_valid_axis / test_axis, the ioctl request       *)
(*     codes, get_normalized_value / apply_flatness;                       *)
(*   - evdev-joystick: JoystickEvents::next, Joystick::from(Device) and    *)
(*     Joystick::get_button_index.                                         *)
(* Four specifications share the variables: Spec (the calibration store),  *)
(* SpecEvents (the event iterator), SpecNorm (normalization) and SpecJoy   *)
(* (the button mapping).                                                   *)
(***************************************************************************)
EXTENDS Integers, Sequences, FiniteSets, TLC

VARIABLES
    alive,      \* store: file -> the fd still answers evdev ioctls
    absbit,     \* store: file -> the device's EV_ABS capability bitmask (bytes)
    calib,      \* store: file -> axis -> the kernel's input_absinfo
    held,       \* store: the caller's local AbsInfo value, or NoInfo
    heldRead,   \* store (history): the maximum `held` had when get_absinfo made it
    last,       \* store: the last get_absinfo / set_absinfo call and its outcome
    wrote,      \* store (history): file -> axis -> what set_absinfo last stored there
    ops,        \* store: number of steps taken so far
    evPc,       \* events: "idle" between next() calls, "reading" inside the loop
    read_flag,  \* events: the local read_flag of the running next() call
    reads,      \* events: every next_event() call so far: flag used, outcome
    yielded,    \* events: the items next() returned as Some(event), in order
    returns,    \* events: what each finished next() call returned
    nabs,       \* norm: the calibration being normalized
    nres,       \* norm: the outcome of get_normalized_value, or NotRun
    devKeys,    \* joy: the key codes the device currently reports (Device::has)
    joy,        \* joy: the Joystick built from the device, or NoJoystick
    lookup      \* joy: the last get_button_index call and its result

storeVars == <<alive, absbit, calib, held, heldRead, last, wrote, ops>>
eventVars == <<evPc, read_flag, reads, yielded, returns>>
normVars == <<nabs, nres>>
joyVars == <<devKeys, joy, lookup>>
vars == <<storeVars, eventVars, normVars, joyVars>>

----------------------------------------------------------------------------
(* Integer helpers with Rust's semantics.                                  *)

Abs(x) == IF x < 0 THEN -x ELSE x

\* Rust's `/` on signed integers: truncation toward zero (b # 0).
TruncDiv(a, b) ==
    LET q == Abs(a) \div Abs(b)
    IN  IF (a < 0) # (b < 0) THEN -q ELSE q

\* i32::div_euclid(a, 2): the remainder is never negative.
DivEuclid2(a) == a \div 2

I16_MIN == -32768
I16_MAX == 32767
I32_MAX == 2147483647
U16_MAX == 65535

----------------------------------------------------------------------------
(* evdev-absinfo/src/raw.rs: the ioctl request codes.                      *)

ABS_MAX == 63

IOC_NRBITS == 8
IOC_TYPEBITS == 8
IOC_SIZEBITS == 14
IOC_DIRBITS == 2
IOC_WRITE == 1
IOC_READ == 2
\* b'E'
EVDEV_MAGIC == 69
\* size_of::<input_absinfo>(): six i32 fields
ABSINFO_SIZE == 24
GET_ABS_BASE == 64
SET_ABS_BASE == 192

\* request_code_read! / request_code_write!: the request number is
\*   dir << (NRBITS + TYPEBITS + SIZEBITS) | size << (NRBITS + TYPEBITS)
\*       | ty << NRBITS | nr.
\* It does not fit TLC's 32-bit integers (IOC_READ << 30 = 2^31), so
\* it is kept as its two halves: the high 16 bits (dir, size) and the low 16
\* bits (ty, nr), each field masked to its width.
ioc(dir, ty, nr, size) ==
    [hi |-> (dir % 2^IOC_DIRBITS) * 2^IOC_SIZEBITS + (size % 2^IOC_SIZEBITS),
     lo |-> (ty % 2^IOC_TYPEBITS) * 2^IOC_NRBITS + (nr % 2^IOC_NRBITS)]

\* evioc_set_abs with the command base of evioc_get_abs.
evioc_set_abs_get_base(axis_index) == ioc(IOC_WRITE, EVDEV_MAGIC, GET_ABS_BASE + axis_index, ABSINFO_SIZE)

evioc_set_abs(axis_index) == ioc(IOC_WRITE, EVDEV_MAGIC, SET_ABS_BASE + axis_index, ABSINFO_SIZE)

evioc_get_abs(axis_index) == ioc(IOC_READ, EVDEV_MAGIC, GET_ABS_BASE + axis_index, ABSINFO_SIZE)

\* The capability-bitmask query for the EV_ABS category.
EVIOCGBIT_ABS == "EVIOCGBIT(EV_ABS)"

\* raw::AbsBitMask: (ABS_MAX / 8) + 1 bytes.
AbsBitMaskLen == (ABS_MAX \div 8) + 1

----------------------------------------------------------------------------
(* The calibration store: evdev-absinfo/src/lib.rs.                        *)

\* Cap on the number of steps of the store specification.
MaxOps == 5
\* How far beyond ABS_MAX the axis indices passed to get_absinfo go.
AxisOver == 2

Files == {"js0", "js1"}

\* The axis_index arguments tried: in-range indices (supported by some
\* fixture or by none), the first ones past ABS_MAX and the largest u16.
AxisInputs == {0, 2, 9, ABS_MAX} \cup (ABS_MAX + 1..ABS_MAX + AxisOver) \cup {U16_MAX}

\* The sets of absolute axes a device fixture may support: js0 is a stick
\* with axes 0 and 2; js1 has no absolute axis, or axes 2 and ABS_MAX.
FixtureAxes ==
    {[js0 |-> {0, 2}, js1 |-> {}], [js0 |-> {0, 2}, js1 |-> {2, ABS_MAX}]}

RECURSIVE BitsOf(_)
BitsOf(S) ==
    IF S = {} THEN 0
    ELSE LET b == CHOOSE x \in S : TRUE
         IN  2^b + BitsOf(S \ {b})

\* The bitmask bytes the kernel reports for a set of supported axes.
BitmaskOf(S) ==
    [i \in 1..AbsBitMaskLen |-> BitsOf({a % 8 : a \in {x \in S : x \div 8 = i - 1}})]

ZeroInfo ==
    [value |-> 0, minimum |-> 0, maximum |-> 0, fuzz |-> 0, flat |-> 0, resolution |-> 0]

\* The calibration a fixture starts with on a supported axis.
InitialInfo(axis) ==
    [ZeroInfo EXCEPT !.maximum = CASE axis = 0 -> 10 [] axis = 2 -> -7 [] OTHER -> 5]

\* What another writer (another process holding the device) stores.
OtherMaximum == 3

NoInfo == [present |-> FALSE, axis |-> 0, inner |-> ZeroInfo]
NoWrite == [valid |-> FALSE, inner |-> ZeroInfo, from |-> 0, halvings |-> 0]
NoCall ==
    [at |-> 0, op |-> "none", file |-> "", axis |-> 0, result |-> "",
     syscalls |-> <<>>, steps |-> <<>>, info |-> NoInfo]

\* test_axis that forgets the bit mask: any bit of the byte counts.
test_axis_any_bit(axis_index, bit_array) ==
    bit_array[(axis_index \div 8) + 1] # 0

\* test_axis: bit (axis_index % 8) of byte (axis_index / 8).
test_axis(axis_index, bit_array) ==
    (bit_array[(axis_index \div 8) + 1] \div 2^(axis_index % 8)) % 2 # 0

\* check_valid_axis: the bitmask query, then the bit test.  An index past the
\* end of the bitmask is a Rust index panic.
check_valid_axis(f, axis_index) ==
    IF ~alive[f]
    THEN [result |-> "CErrno", syscalls |-> <<EVIOCGBIT_ABS>>]
    ELSE IF (axis_index \div 8) + 1 > Len(absbit[f])
    THEN [result |-> "panic", syscalls |-> <<EVIOCGBIT_ABS>>]
    ELSE IF ~test_axis(axis_index, absbit[f])
    THEN [result |-> "NonAbsAxis", syscalls |-> <<EVIOCGBIT_ABS>>]
    ELSE [result |-> "Ok", syscalls |-> <<EVIOCGBIT_ABS>>]

\* _IOC_NR of a request code.
IocNr(code) == code.lo % 2^IOC_NRBITS

\* The kernel's answer to the get-calibration request `code` on file f: the
\* entry of its per-axis table, all zero where nothing was ever stored.
KernelGetAbs(f, code) ==
    LET t == IocNr(code) - GET_ABS_BASE
    IN  IF t \in DOMAIN calib[f] THEN calib[f][t] ELSE ZeroInfo

\* The kernel's state after the set-calibration request `code` on file f: it
\* stores what it is given.
KernelSetAbs(f, code, inner) ==
    LET t == IocNr(code) - SET_ABS_BASE
    IN  [calib EXCEPT ![f] = [a \in DOMAIN calib[f] \cup {t} |->
                                IF a = t THEN inner ELSE calib[f][a]]]

\* get_absinfo without its bounds check.
get_absinfo_no_bounds(f, axis_index, dropped) ==
    LET c == check_valid_axis(f, axis_index)
    IN  IF c.result # "Ok"
        THEN [result |-> c.result, syscalls |-> c.syscalls,
              steps |-> <<"capability">>, info |-> NoInfo]
        ELSE [result |-> IF dropped THEN "CErrno" ELSE "Ok",
              syscalls |-> Append(c.syscalls, evioc_get_abs(axis_index)),
              steps |-> <<"capability", "ioctl">>,
              info |-> IF dropped THEN NoInfo
                       ELSE [present |-> TRUE, axis |-> axis_index,
                             inner |-> KernelGetAbs(f, evioc_get_abs(axis_index))]]

\* get_absinfo with the bounds check made after the capability check.
get_absinfo_late_bounds(f, axis_index, dropped) ==
    LET c == check_valid_axis(f, axis_index)
    IN  IF c.result # "Ok"
        THEN [result |-> c.result, syscalls |-> c.syscalls,
              steps |-> <<"capability">>, info |-> NoInfo]
        ELSE [result |-> "UnboundAxis", syscalls |-> c.syscalls,
              steps |-> <<"capability", "bounds">>, info |-> NoInfo]

\* AbsInfo::get_absinfo(file, axis_index); `dropped`: the device goes away
\* between the bitmask query and the calibration ioctl.
get_absinfo(f, axis_index, dropped) ==
    IF axis_index > ABS_MAX
    THEN [result |-> "UnboundAxis", syscalls |-> <<>>, steps |-> <<"bounds">>,
          info |-> NoInfo]
    ELSE LET c == check_valid_axis(f, axis_index)
         IN  IF c.result # "Ok"
             THEN [result |-> c.result, syscalls |-> c.syscalls,
                   steps |-> <<"bounds", "capability">>, info |-> NoInfo]
             ELSE LET code == evioc_get_abs(axis_index)
                  IN  [result |-> IF dropped THEN "CErrno" ELSE "Ok",
                       syscalls |-> Append(c.syscalls, code),
                       steps |-> <<"bounds", "capability", "ioctl">>,
                       info |-> IF dropped THEN NoInfo
                                ELSE [present |-> TRUE, axis |-> axis_index,
                                      inner |-> KernelGetAbs(f, code)]]

\* set_absinfo that issues the ioctl without check_valid_axis.
set_absinfo_unchecked(self, f, dropped) ==
    [result |-> IF dropped \/ ~alive[f] THEN "CErrno" ELSE "Ok",
     syscalls |-> <<evioc_set_abs(self.axis)>>,
     steps |-> <<"ioctl">>,
     store |-> IF dropped \/ ~alive[f] THEN calib
               ELSE KernelSetAbs(f, evioc_set_abs(self.axis), self.inner)]

\* AbsInfo::set_absinfo(self, file): `store` is the kernel state afterwards.
set_absinfo(self, f, dropped) ==
    LET c == check_valid_axis(f, self.axis)
    IN  IF c.result # "Ok"
        THEN [result |-> c.result, syscalls |-> c.syscalls,
              steps |-> <<"capability">>, store |-> calib]
        ELSE LET code == evioc_set_abs(self.axis)
             IN  [result |-> IF dropped THEN "CErrno" ELSE "Ok",
                  syscalls |-> Append(c.syscalls, code),
                  steps |-> <<"capability", "ioctl">>,
                  store |-> IF dropped THEN calib
                            ELSE KernelSetAbs(f, code, self.inner)]

\* `abs_info.inner.maximum /= 2` on the caller's copy.
halve_maximum(info) == [info EXCEPT !.inner.maximum = TruncDiv(@, 2)]

\* The calibration ioctl of a call was reached (and could fail).
ReachesIoctl(f, axis_index) ==
    axis_index <= ABS_MAX /\ check_valid_axis(f, axis_index).result = "Ok"

InitStore ==
    /\ alive = [f \in Files |-> TRUE]
    /\ \E axes \in FixtureAxes :
          /\ absbit = [f \in Files |-> BitmaskOf(axes[f])]
          /\ calib = [f \in Files |-> [a \in axes[f] |-> InitialInfo(a)]]
          /\ wrote = [f \in Files |-> [a \in axes[f] |-> NoWrite]]
    /\ held = NoInfo
    /\ heldRead = [maximum |-> 0, halvings |-> 0]
    /\ last = NoCall
    /\ ops = 0

GetAbsinfo(f, axis_index, dropped) ==
    /\ ops < MaxOps
    /\ UNCHANGED <<eventVars, normVars, joyVars>>
    /\ dropped => ReachesIoctl(f, axis_index)
    /\ LET r == get_absinfo(f, axis_index, dropped)
       IN  /\ last' = [at |-> ops + 1, op |-> "get", file |-> f, axis |-> axis_index,
                       result |-> r.result, syscalls |-> r.syscalls,
                       steps |-> r.steps, info |-> r.info]
           /\ held' = IF r.result = "Ok" THEN r.info ELSE held
           /\ heldRead' = IF r.result = "Ok"
                          THEN [maximum |-> r.info.inner.maximum, halvings |-> 0]
                          ELSE heldRead
    /\ alive' = IF dropped THEN [alive EXCEPT ![f] = FALSE] ELSE alive
    /\ ops' = ops + 1
    /\ UNCHANGED <<absbit, calib, wrote>>

SetAbsinfo(f, dropped) ==
    /\ ops < MaxOps
    /\ UNCHANGED <<eventVars, normVars, joyVars>>
    /\ held.present
    /\ dropped => ReachesIoctl(f, held.axis)
    /\ LET r == set_absinfo(held, f, dropped)
       IN  /\ last' = [at |-> ops + 1, op |-> "set", file |-> f, axis |-> held.axis,
                       result |-> r.result, syscalls |-> r.syscalls,
                       steps |-> r.steps, info |-> NoInfo]
           /\ calib' = r.store
           /\ wrote' = IF r.result = "Ok"
                       THEN [wrote EXCEPT ![f] =
                               [a \in DOMAIN wrote[f] \cup {held.axis} |->
                                  IF a = held.axis
                                  THEN [valid |-> TRUE, inner |-> held.inner,
                                        from |-> heldRead.maximum,
                                        halvings |-> heldRead.halvings]
                                  ELSE wrote[f][a]]]
                       ELSE wrote
    /\ held' = NoInfo
    /\ alive' = IF dropped THEN [alive EXCEPT ![f] = FALSE] ELSE alive
    /\ ops' = ops + 1
    /\ UNCHANGED <<absbit, heldRead>>

HalveMaximum ==
    /\ ops < MaxOps
    /\ UNCHANGED <<eventVars, normVars, joyVars>>
    /\ held.present
    /\ held' = halve_maximum(held)
    /\ heldRead' = [heldRead EXCEPT !.halvings = @ + 1]
    /\ ops' = ops + 1
    /\ UNCHANGED <<alive, absbit, calib, last, wrote>>

OtherWriter(f, a) ==
    /\ ops < MaxOps
    /\ UNCHANGED <<eventVars, normVars, joyVars>>
    /\ alive[f]
    /\ a \in DOMAIN calib[f]
    /\ calib' = [calib EXCEPT ![f][a].maximum = OtherMaximum]
    /\ wrote' = [wrote EXCEPT ![f][a] = NoWrite]
    /\ ops' = ops + 1
    /\ UNCHANGED <<alive, absbit, held, heldRead, last>>

Disconnect(f) ==
    /\ ops < MaxOps
    /\ UNCHANGED <<eventVars, normVars, joyVars>>
    /\ alive[f]
    /\ alive' = [alive EXCEPT ![f] = FALSE]
    /\ ops' = ops + 1
    /\ UNCHANGED <<absbit, calib, held, heldRead, last, wrote>>

----------------------------------------------------------------------------
(* Properties of the calibration store, checked under Spec.                *)

\* The step just taken is a get_absinfo / set_absinfo call.
IsCall == last'.at = ops' /\ ops' = ops + 1

\* Bit (axis % 8) of byte (axis / 8) of the bitmask file f reports is set.
BitSet(f, axis) == (absbit[f][(axis \div 8) + 1] \div 2^(axis % 8)) % 2 = 1

\* C1: get_absinfo with an axis_index greater than ABS_MAX returns
\* Err(UnboundAxis(axis_index)) and issues no ioctl, neither the bitmask
\* query nor the get-calibration request, whatever the state of the device.
C1_UnboundAxisNoIoctl ==
    (last.op = "get" /\ last.axis > ABS_MAX) =>
        /\ last.result = "UnboundAxis"
        /\ last.syscalls = <<>>
        /\ ~last.info.present

\* C1 witness: the call of test_out_of_bounds_axis, also made on a device
\* that is gone.
C1_Witness ==
    /\ last.op = "get"
    /\ last.axis = ABS_MAX + 1
    /\ last.result = "UnboundAxis"
    /\ ~alive[last.file]

\* C2: a get_absinfo or set_absinfo call for an axis <= ABS_MAX whose bit is
\* clear in the bitmask the device reports returns Err(NonAbsAxis(axis)); the
\* only syscall made is the bitmask query and the device's calibration is
\* unchanged.
C2_NonAbsAxis ==
    [][(/\ IsCall
        /\ last'.axis <= ABS_MAX
        /\ alive[last'.file]
        /\ ~BitSet(last'.file, last'.axis))
       => (/\ last'.result = "NonAbsAxis"
           /\ last'.syscalls = <<EVIOCGBIT_ABS>>
           /\ calib' = calib)]_vars

\* C2 witness: a set_absinfo on a device that lacks the axis of the value
\* being written (read from the other device) fails with NonAbsAxis.
C2_Witness ==
    /\ last.op = "set"
    /\ last.result = "NonAbsAxis"
    /\ last.axis = 0
    /\ last.file = "js1"

\* C3 as claimed: set_absinfo performs the same three ordered steps as
\* get_absinfo, the bounds check first.
C3_SetBoundsCheckFirst ==
    (last.op = "set" /\ last.result = "Ok") =>
        last.steps = <<"bounds", "capability", "ioctl">>

\* C3 amended: set_absinfo performs two ordered steps, the capability-bitmask
\* check and then the set-calibration ioctl; it has no bounds check of its own
\* and never returns UnboundAxis.  The axis it writes is <= ABS_MAX because
\* get_absinfo checked it when it made the value.  The set-calibration request
\* is issued exactly when the bitmask query succeeds with the axis bit set.
C3_SetCapabilityThenIoctl ==
    [][(IsCall /\ last'.op = "set") =>
         LET f == last'.file
             checked == alive[f] /\ BitSet(f, last'.axis)
         IN  /\ last'.axis = held.axis
             /\ last'.axis <= ABS_MAX
             /\ last'.result # "UnboundAxis"
             /\ last'.steps \in {<<"capability">>, <<"capability", "ioctl">>}
             /\ last'.syscalls[1] = EVIOCGBIT_ABS
             /\ checked <=> last'.syscalls = <<EVIOCGBIT_ABS, evioc_set_abs(last'.axis)>>
             /\ ~checked => (last'.syscalls = <<EVIOCGBIT_ABS>> /\ calib' = calib)
             /\ last'.result = "Ok" => checked]_vars

\* C3 witness: a set_absinfo that went through both steps and succeeded.
C3_Witness ==
    /\ last.op = "set"
    /\ last.result = "Ok"
    /\ last.steps = <<"capability", "ioctl">>
    /\ Len(last.syscalls) = 2

\* What set_absinfo last stored for the axis the last call was about.
LastWrite ==
    IF last.file \in Files /\ last.axis \in DOMAIN wrote[last.file]
    THEN wrote[last.file][last.axis]
    ELSE NoWrite

\* C4: after get_absinfo returned c, the caller halved c.maximum and
\* set_absinfo succeeded, the next get_absinfo of that axis with no other
\* writer in between returns what was written, its maximum being the halved
\* value; the local edit alone, without set_absinfo, leaves the device's
\* calibration as it was.
C4_RoundTrip ==
    /\ []((last.op = "get" /\ last.result = "Ok" /\ LastWrite.valid) =>
            /\ last.info.inner = LastWrite.inner
            /\ LastWrite.halvings = 1 =>
                 last.info.inner.maximum = TruncDiv(LastWrite.from, 2))
    /\ [][(held.present /\ held'.present /\ held' # held /\ last' = last)
            => calib' = calib]_vars

\* C4 witness: the maximum -7 read, halved to -3 (Rust's division truncates),
\* written and read back.
C4_Witness ==
    /\ last.op = "get"
    /\ last.result = "Ok"
    /\ LastWrite.valid
    /\ LastWrite.halvings = 1
    /\ LastWrite.from = -7
    /\ last.info.inner.maximum = -3

\* C12: every AbsInfo value that exists has axis <= ABS_MAX (only
\* get_absinfo makes one, after its bounds check, and the local edits reach
\* `inner` alone), so the bitmask lookup bit_array[axis / 8] of
\* check_valid_axis stays within the (ABS_MAX / 8) + 1 bytes of the bitmask,
\* for get_absinfo and for set_absinfo: no call ends in an index panic.
C12_AxisWithinBitmask ==
    /\ held.present => (held.axis >= 0 /\ held.axis <= ABS_MAX)
    /\ last.info.present => (last.info.axis >= 0 /\ last.info.axis <= ABS_MAX)
    /\ last.result # "panic"
    /\ (last.op \in {"get", "set"} /\ last.syscalls # <<>>) =>
          /\ last.axis <= ABS_MAX
          /\ (last.axis \div 8) + 1 <= (ABS_MAX \div 8) + 1
          /\ (last.axis \div 8) + 1 <= Len(absbit[last.file])

\* C12 witness: a value read for axis ABS_MAX and edited locally is written
\* back, the lookup reading the last byte of the bitmask.
C12_Witness ==
    /\ last.op = "set"
    /\ last.result = "Ok"
    /\ last.axis = ABS_MAX
    /\ (last.axis \div 8) + 1 = Len(absbit[last.file])
    /\ LastWrite.halvings = 1

----------------------------------------------------------------------------
(* The event iterator: evdev-joystick/src/events.rs.                       *)

\* Cap on the number of next_event() reads of the event specification.
MaxReads == 5

InitEvents ==
    /\ evPc = "idle"
    /\ read_flag = "NORMAL"
    /\ reads = <<>>
    /\ yielded = <<>>
    /\ returns = <<>>

\* The number of the next() call that is running (or will run next).
CurrentCall == Len(returns) + 1

\* One next_event(read_flag) call and the device's answer to it.  The event
\* of the n-th read is identified by n.
ReadRecord(status) ==
    [call |-> CurrentCall, flag |-> read_flag, status |-> status,
     event |-> IF status \in {"Success", "Sync"} THEN Len(reads) + 1 ELSE 0]

\* next_step that also yields the events delivered with status Sync.
next_step_yield_sync(status, event) ==
    CASE status \in {"Success", "Sync"} ->
              [done |-> TRUE, some |-> TRUE, event |-> event, flag |-> read_flag]
      [] status = "EAGAIN" -> [done |-> FALSE, some |-> FALSE, event |-> 0, flag |-> "NORMAL"]
      [] OTHER -> [done |-> TRUE, some |-> FALSE, event |-> 0, flag |-> read_flag]

\* What the loop does with the answer: the value next() returns, if it
\* returns, and the read_flag of the following iteration.
next_step(status, event) ==
    CASE status = "Success" -> [done |-> TRUE, some |-> TRUE, event |-> event, flag |-> read_flag]
      [] status = "Sync"    -> [done |-> FALSE, some |-> FALSE, event |-> 0, flag |-> "SYNC"]
      [] status = "EAGAIN"  -> [done |-> FALSE, some |-> FALSE, event |-> 0, flag |-> "NORMAL"]
      [] OTHER              -> [done |-> TRUE, some |-> FALSE, event |-> 0, flag |-> read_flag]

\* next() is called: `let mut read_flag = ReadFlag::NORMAL`.
NextCall ==
    /\ evPc = "idle"
    /\ UNCHANGED <<storeVars, normVars, joyVars>>
    /\ Len(reads) < MaxReads
    /\ evPc' = "reading"
    /\ read_flag' = "NORMAL"
    /\ UNCHANGED <<reads, yielded, returns>>

\* One iteration of the loop, the device answering `status`.
ReadStep(status) ==
    /\ UNCHANGED <<storeVars, normVars, joyVars>>
    /\ LET rec == ReadRecord(status)
           r == next_step(status, rec.event)
       IN  /\ reads' = Append(reads, rec)
           /\ read_flag' = r.flag
           /\ evPc' = IF r.done THEN "idle" ELSE "reading"
           /\ yielded' = IF r.done /\ r.some THEN Append(yielded, r.event) ELSE yielded
           /\ returns' = IF r.done
                         THEN Append(returns, [some |-> r.some, event |-> r.event])
                         ELSE returns

\* Ok((ReadStatus::Success, event))
ReadSuccess ==
    /\ evPc = "reading"
    /\ Len(reads) < MaxReads
    /\ ReadStep("Success")

\* Ok((ReadStatus::Sync, event))
ReadSync ==
    /\ evPc = "reading"
    /\ Len(reads) < MaxReads
    /\ ReadStep("Sync")

\* Err(e) with e.raw_os_error() == Some(EAGAIN)
ReadAgain ==
    /\ evPc = "reading"
    /\ Len(reads) < MaxReads
    /\ ReadStep("EAGAIN")

\* Err(e) with any other error
ReadError ==
    /\ evPc = "reading"
    /\ Len(reads) < MaxReads
    /\ ReadStep("Error")

----------------------------------------------------------------------------
(* Properties of the event iterator, checked under SpecEvents.             *)

\* The index of the first read that failed with a fatal error, or one past
\* the last read.
FirstFatal ==
    IF \E i \in 1..Len(reads) : reads[i].status = "Error"
    THEN CHOOSE i \in 1..Len(reads) :
            /\ reads[i].status = "Error"
            /\ \A j \in 1..(i - 1) : reads[j].status # "Error"
    ELSE Len(reads) + 1

IsDelivered(r) == r.status = "Success"
BeforeFirstFatal(e) == e < FirstFatal

RECURSIVE EventsOf(_)
EventsOf(rs) == IF rs = <<>> THEN <<>> ELSE <<Head(rs).event>> \o EventsOf(Tail(rs))

Statuses == [i \in 1..Len(reads) |-> reads[i].status]

\* C5: up to the first fatal error the items yielded are exactly the events
\* whose read returned Success, in the order of the reads.  A read answered
\* Sync yields nothing and makes the next read of the call a SYNC read; a
\* read answered EAGAIN yields nothing, leaves next() running and makes the
\* next read a NORMAL read.  Sync, Success, Success, Error yields two events.
C5_YieldsDelivered ==
    /\ SelectSeq(yielded, BeforeFirstFatal)
          = EventsOf(SelectSeq(SubSeq(reads, 1, FirstFatal - 1), IsDelivered))
    /\ \A i \in 1..Len(reads) :
          reads[i].flag = IF /\ i > 1
                             /\ reads[i - 1].call = reads[i].call
                             /\ reads[i - 1].status = "Sync"
                          THEN "SYNC" ELSE "NORMAL"
    /\ (reads # <<>> /\ reads[Len(reads)].status \in {"Sync", "EAGAIN"}) =>
          /\ evPc = "reading"
          /\ reads[Len(reads)].call = CurrentCall
          /\ read_flag = IF reads[Len(reads)].status = "Sync" THEN "SYNC" ELSE "NORMAL"
    /\ Len(returns) = Cardinality({i \in 1..Len(reads) :
                                     reads[i].status \in {"Success", "Error"}})
    /\ Statuses = <<"Sync", "Success", "Success", "Error">> => yielded = <<2, 3>>

\* C5 witness: the scenario of the claim, after the fatal error.
C5_Witness ==
    /\ Statuses = <<"Sync", "Success", "Success", "Error">>
    /\ Len(yielded) = 2
    /\ reads[2].flag = "SYNC"
    /\ reads[3].flag = "NORMAL"
    /\ evPc = "idle"

\* C6 as claimed: once a read failed with an error other than would-block,
\* next() returns None for that call and on every later call.
C6_NoItemAfterFatal ==
    \A i, j \in 1..Len(returns) :
        (i < j /\ ~returns[i].some) => ~returns[j].some

----------------------------------------------------------------------------
(* Normalization: AbsInfo::get_normalized_value and                        *)
(* JoystickAbsInfo::normalized_value.                                      *)

\* Half-width of the window of small raw values, minima and maxima tried.
NormSpan == 3
\* Largest flat of the dense window 0..FlatSpan.
FlatSpan == 4

\* const I16_RANGE: i64 = u16::MAX as i64
I16_RANGE == U16_MAX

\* TLC's integers are 32-bit: the raw values are kept small enough
\* for value * I16_RANGE to be computed exactly, as the code's i64 does.
NormBounds == (-NormSpan..NormSpan) \cup {10, 1000, I16_MAX}
NormValues == NormBounds \cup (16383..16385) \cup {500, 900}
\* flat = i32::MIN is left out: `-flat` overflows there.
NormFlats == (0..FlatSpan) \cup {-3, -1, 100, I32_MAX}

NotRun == [status |-> "NotRun", by |-> "", norm |-> 0, value |-> 0]

\* i32::max and i32::min
Max32(a, b) == IF a >= b THEN a ELSE b
Min32(a, b) == IF a <= b THEN a ELSE b

\* The deadzone band of apply_flatness: (-flat).div_euclid(2) and flat.div_euclid(2).
FlatLower(flat) == DivEuclid2(-flat)
FlatUpper(flat) == DivEuclid2(flat)

\* apply_flatness with the truncating band -(flat / 2) ..= flat / 2.
apply_flatness_trunc(value, flat) ==
    IF value >= -TruncDiv(flat, 2) /\ value <= TruncDiv(flat, 2) THEN 0 ELSE value

\* evdev-absinfo apply_flatness
apply_flatness(value, flat) ==
    IF value >= FlatLower(flat) /\ value <= FlatUpper(flat) THEN 0 ELSE value

\* evdev-joystick apply_flatness
joystick_apply_flatness(value, flat) ==
    IF value >= DivEuclid2(-flat) /\ value <= DivEuclid2(flat) THEN 0 ELSE value

\* value * I16_RANGE / range_size + translation, in i64 (no i64 overflow is
\* possible from i32 inputs); division by zero panics.
Rescale(value, minimum, maximum) ==
    LET v == Min32(Max32(value, minimum), maximum)
        range_size == maximum - minimum
        translation == I16_MIN - minimum
    IN  IF range_size = 0
        THEN [panic |-> TRUE, norm |-> 0]
        ELSE LET n == TruncDiv(v * I16_RANGE, range_size) + translation
             IN  IF n < I16_MIN \/ n > I16_MAX
                 THEN [panic |-> TRUE, norm |-> 0]       \* i16::try_from(..).expect(..)
                 ELSE [panic |-> FALSE, norm |-> n]

\* AbsInfo::get_normalized_value
get_normalized_value(inner) ==
    LET r == Rescale(inner.value, inner.minimum, inner.maximum)
    IN  IF r.panic
        THEN [status |-> "panic", by |-> "AbsInfo", norm |-> 0, value |-> 0]
        ELSE [status |-> "Ok", by |-> "AbsInfo", norm |-> r.norm,
              value |-> apply_flatness(r.norm, inner.flat)]

\* JoystickAbsInfo::normalized_value
normalized_value(inner) ==
    LET r == Rescale(inner.value, inner.minimum, inner.maximum)
    IN  IF r.panic
        THEN [status |-> "panic", by |-> "JoystickAbsInfo", norm |-> 0, value |-> 0]
        ELSE [status |-> "Ok", by |-> "JoystickAbsInfo", norm |-> r.norm,
              value |-> joystick_apply_flatness(r.norm, inner.flat)]

InitNorm ==
    /\ nabs \in [value : NormValues, minimum : NormBounds, maximum : NormBounds,
                 fuzz : {0}, flat : NormFlats, resolution : {0}]
    /\ nres = NotRun

NormalizeAbsInfo ==
    /\ nres = NotRun
    /\ UNCHANGED <<storeVars, eventVars, joyVars>>
    /\ nres' = get_normalized_value(nabs)
    /\ UNCHANGED nabs

NormalizeJoystick ==
    /\ nres = NotRun
    /\ UNCHANGED <<storeVars, eventVars, joyVars>>
    /\ nres' = normalized_value(nabs)
    /\ UNCHANGED nabs

----------------------------------------------------------------------------
(* Properties of normalization, checked under SpecNorm.                    *)

\* The normalization that produced nres, applied to another calibration.
Renormalize(inner) ==
    IF nres.by = "AbsInfo" THEN get_normalized_value(inner) ELSE normalized_value(inner)

\* C7 as claimed: with maximum > minimum and flat = 0 the normalized value is
\* non-decreasing in value over [minimum, maximum], is -32768 at minimum and
\* 32767 at maximum, for every minimum.
C7_ExactEndpointsMonotone ==
    (nres.status # "NotRun" /\ nabs.maximum > nabs.minimum /\ nabs.flat = 0
       /\ nabs.value >= nabs.minimum /\ nabs.value <= nabs.maximum) =>
        /\ nres.status = "Ok"
        /\ nabs.value = nabs.minimum => nres.value = I16_MIN
        /\ nabs.value = nabs.maximum => nres.value = I16_MAX
        /\ \A v \in NormValues :
              (v >= nabs.minimum /\ v <= nabs.value) =>
                  LET r == Renormalize([nabs EXCEPT !.value = v])
                  IN  r.status = "Ok" /\ r.value <= nres.value

\* C8 as claimed: whenever maximum <= minimum normalization fails, for every
\* value and every flat.
C8_InvalidRangeFails ==
    (nres.status # "NotRun" /\ nabs.maximum <= nabs.minimum) => nres.status = "panic"

\* C9 as claimed: for flat >= 0 the deadzone step outputs 0 exactly on the
\* band [(-flat) div 2, flat div 2] and the band is symmetric about 0.
C9_SymmetricBand ==
    (nres.status = "Ok" /\ nabs.flat >= 0) =>
        LET lo == (-nabs.flat) \div 2
            hi == nabs.flat \div 2
        IN  /\ nres.value = IF nres.norm >= lo /\ nres.norm <= hi THEN 0 ELSE nres.norm
            /\ lo = -hi

\* C9 amended: for flat >= 0 the deadzone step outputs 0 exactly on the band
\* [(-flat) div 2, flat div 2] (Euclidean division) and returns every other
\* scaled value unchanged.  The band holds flat + 1 values: it is symmetric
\* about 0 (lower = -upper) when flat is even, and reaches one further below
\* 0 (lower = -upper - 1) when flat is odd.  The raw values normalized to 0
\* form one contiguous interval, and a larger flat never removes a value
\* from it.
C9_DeadzoneBand ==
    (nres.status = "Ok" /\ nabs.flat >= 0) =>
        LET lo == (-nabs.flat) \div 2
            hi == nabs.flat \div 2
        IN  /\ nres.value = IF nres.norm >= lo /\ nres.norm <= hi THEN 0 ELSE nres.norm
            /\ lo = IF nabs.flat % 2 = 0 THEN -hi ELSE -hi - 1
            /\ hi - lo = nabs.flat
            /\ \A f2 \in NormFlats :
                  (f2 >= nabs.flat /\ nres.value = 0) =>
                      Renormalize([nabs EXCEPT !.flat = f2]).value = 0
            /\ nres.value = 0 =>
                  \A v2, v3 \in NormValues :
                      (/\ nabs.value < v2
                       /\ v2 < v3
                       /\ Renormalize([nabs EXCEPT !.value = v3]).status = "Ok"
                       /\ Renormalize([nabs EXCEPT !.value = v3]).value = 0)
                      => (/\ Renormalize([nabs EXCEPT !.value = v2]).status = "Ok"
                          /\ Renormalize([nabs EXCEPT !.value = v2]).value = 0)

\* C9 witness: flat = 3 zeroes the scaled value -2, below the band's upper
\* bound 1 mirrored.
C9_Witness ==
    /\ nres.status = "Ok"
    /\ nres.by = "AbsInfo"
    /\ nabs.flat = 3
    /\ nres.norm = -2
    /\ nres.value = 0

\* The quantity handed to i16::try_from for the calibration nabs:
\* clamped * 65535 / (maximum - minimum) + (-32768 - minimum), the division
\* truncating.
RescaledQuantity ==
    LET clamped == Min32(Max32(nabs.value, nabs.minimum), nabs.maximum)
    IN  TruncDiv(clamped * U16_MAX, nabs.maximum - nabs.minimum)
          + (I16_MIN - nabs.minimum)

\* C11 as claimed: for every calibration with maximum > minimum the rescaled
\* quantity lies in [-32768, 32767], so the conversion to i16 never fails and
\* normalization never panics.
C11_RescaleFitsI16 ==
    (nres.status # "NotRun" /\ nabs.maximum > nabs.minimum) =>
        /\ RescaledQuantity >= I16_MIN
        /\ RescaledQuantity <= I16_MAX
        /\ nres.status = "Ok"

----------------------------------------------------------------------------
(* The button mapping: evdev-joystick/src/joystick.rs.  Of Joystick::from  *)
(* only the button map is modelled; abs_axis and rel_axis are built the    *)
(* same way from tables of the evdev_rs crate.                             *)

\* EV_KEY::KEY_MAX
KEY_MAX == 767
\* EventType::EV_KEY as u32, EventType::EV_ABS as u32
EV_KEY_U32 == 1
EV_ABS_U32 == 3

\* The key codes a device fixture may report.
KeyUniverse == {0, 288, 289, KEY_MAX - 1, KEY_MAX}

\* The event codes get_button_index is asked about.
LookupCodes ==
    [variant : {"EV_KEY"}, event_type : {EV_KEY_U32}, code : KeyUniverse \cup {1}]
    \cup [variant : {"EV_UNK"}, event_type : {EV_KEY_U32, EV_ABS_U32},
          code : KeyUniverse \cup {1, KEY_MAX + 1}]
    \cup [variant : {"EV_ABS"}, event_type : {EV_ABS_U32}, code : {0, 1}]

NoJoystick == [built |-> FALSE, buttons |-> <<>>, builtKeys |-> {}]
NoLookup ==
    [asked |-> FALSE, code |-> [variant |-> "", event_type |-> 0, code |-> 0],
     some |-> FALSE, index |-> 0]

\* device.has(EventCode::EV_UNK { event_type: EV_KEY, event_code: i })
DeviceHasKey(i) == i \in devKeys

\* The button map probed over 0..=KEY_MAX.
BuildButtonsInclusive ==
    LET probed == SelectSeq([i \in 1..KEY_MAX + 1 |-> i - 1], DeviceHasKey)
    IN  [v \in {probed[i] : i \in 1..Len(probed)} |->
            (CHOOSE i \in 1..Len(probed) : probed[i] = v) - 1]

\* (0..KEY_MAX).filter(has).enumerate().map(|(i, v)| (v, i)).collect()
BuildButtons ==
    LET probed == SelectSeq([i \in 1..KEY_MAX |-> i - 1], DeviceHasKey)
    IN  [v \in {probed[i] : i \in 1..Len(probed)} |->
            (CHOOSE i \in 1..Len(probed) : probed[i] = v) - 1]

\* Joystick::get_button_index
get_button_index(buttons, event_code) ==
    LET keyed == \/ event_code.variant = "EV_KEY"
                 \/ (event_code.variant = "EV_UNK" /\ event_code.event_type = EV_KEY_U32)
    IN  IF keyed /\ event_code.code \in DOMAIN buttons
        THEN [some |-> TRUE, index |-> buttons[event_code.code]]
        ELSE [some |-> FALSE, index |-> 0]

InitJoy ==
    /\ devKeys \in SUBSET KeyUniverse
    /\ joy = NoJoystick
    /\ lookup = NoLookup

\* impl From<Device> for Joystick
FromDevice ==
    /\ ~joy.built
    /\ UNCHANGED <<storeVars, eventVars, normVars>>
    /\ joy' = [built |-> TRUE, buttons |-> BuildButtons, builtKeys |-> devKeys]
    /\ UNCHANGED <<devKeys, lookup>>

GetButtonIndex(event_code) ==
    /\ joy.built
    /\ UNCHANGED <<storeVars, eventVars, normVars>>
    /\ LET r == get_button_index(joy.buttons, event_code)
       IN  lookup' = [asked |-> TRUE, code |-> event_code, some |-> r.some, index |-> r.index]
    /\ UNCHANGED <<devKeys, joy>>

\* Through DerefMut the caller reaches Device::enable / Device::disable.
DeviceEnable(k) ==
    /\ joy.built
    /\ UNCHANGED <<storeVars, eventVars, normVars>>
    /\ k \notin devKeys
    /\ devKeys' = devKeys \cup {k}
    /\ UNCHANGED <<joy, lookup>>

DeviceDisable(k) ==
    /\ joy.built
    /\ UNCHANGED <<storeVars, eventVars, normVars>>
    /\ k \in devKeys
    /\ devKeys' = devKeys \ {k}
    /\ UNCHANGED <<joy, lookup>>

----------------------------------------------------------------------------
(* Properties of the button mapping, checked under SpecJoy.                *)

\* What the claim says get_button_index returns for a device that reported
\* `keys` when the Joystick was built.
ExpectedIndex(event_code, keys) ==
    LET keyed == \/ event_code.variant = "EV_KEY"
                 \/ (event_code.variant = "EV_UNK" /\ event_code.event_type = EV_KEY_U32)
    IN  IF /\ keyed
           /\ event_code.code \in keys
           /\ event_code.code >= 0
           /\ event_code.code < KEY_MAX
        THEN [some |-> TRUE, index |-> Cardinality({j \in keys : j < event_code.code})]
        ELSE [some |-> FALSE, index |-> 0]

\* C10: once the Joystick is built, get_button_index(code) is Some(i) exactly
\* when code is a key code in [0, KEY_MAX) the device reported as supported,
\* i being the number of supported key codes below it; it is None for every
\* other code; and the mapping never changes afterwards.
C10_ButtonIndex ==
    /\ [](joy.built =>
            /\ \A c \in LookupCodes :
                  get_button_index(joy.buttons, c) = ExpectedIndex(c, joy.builtKeys)
            /\ {joy.buttons[k] : k \in DOMAIN joy.buttons}
                  = 0..(Cardinality(DOMAIN joy.buttons) - 1))
    /\ [](lookup.asked =>
            [some |-> lookup.some, index |-> lookup.index]
                = ExpectedIndex(lookup.code, joy.builtKeys))
    /\ [][joy.built => joy' = joy]_vars

\* C10 witness: the third button of a device, asked for by its raw code after
\* the device stopped reporting it.
C10_Witness ==
    /\ lookup.asked
    /\ lookup.some
    /\ lookup.index = 2
    /\ lookup.code.variant = "EV_UNK"
    /\ lookup.code.code \notin devKeys

----------------------------------------------------------------------------
(* The specifications.                                                     *)

\* The parts of the state a specification leaves alone.
IdleStore ==
    /\ alive = [f \in Files |-> FALSE]
    /\ absbit = [f \in Files |-> BitmaskOf({})]
    /\ calib = [f \in Files |-> <<>>]
    /\ wrote = [f \in Files |-> <<>>]
    /\ held = NoInfo
    /\ heldRead = [maximum |-> 0, halvings |-> 0]
    /\ last = NoCall
    /\ ops = 0

IdleNorm ==
    /\ nabs = ZeroInfo
    /\ nres = NotRun

IdleJoy ==
    /\ devKeys = {}
    /\ joy = NoJoystick
    /\ lookup = NoLookup

Init == InitStore /\ InitEvents /\ IdleNorm /\ IdleJoy
Next ==
    \/ \E f \in Files, a \in AxisInputs, d \in BOOLEAN : GetAbsinfo(f, a, d)
    \/ \E f \in Files, d \in BOOLEAN : SetAbsinfo(f, d)
    \/ HalveMaximum
    \/ \E f \in Files, a \in 0..ABS_MAX : OtherWriter(f, a)
    \/ \E f \in Files : Disconnect(f)
Spec == Init /\ [][Next]_vars

EventsInit == IdleStore /\ InitEvents /\ IdleNorm /\ IdleJoy
EventsNext ==
    \/ NextCall
    \/ ReadSuccess
    \/ ReadSync
    \/ ReadAgain
    \/ ReadError
SpecEvents == EventsInit /\ [][EventsNext]_vars

NormInit == IdleStore /\ InitEvents /\ InitNorm /\ IdleJoy
NormNext ==
    \/ NormalizeAbsInfo
    \/ NormalizeJoystick
SpecNorm == NormInit /\ [][NormNext]_vars

JoyInit == IdleStore /\ InitEvents /\ IdleNorm /\ InitJoy
JoyNext ==
    \/ FromDevice
    \/ \E c \in LookupCodes : GetButtonIndex(c)
    \/ \E k \in KeyUniverse : DeviceEnable(k)
    \/ \E k \in KeyUniverse : DeviceDisable(k)
SpecJoy == JoyInit /\ [][JoyNext]_vars

====
